---- MODULE Spec2Model ----
(***************************************************************************)
(* Crawling and extraction engine of the blog analyzer                     *)
(* (backend/crawling_service/crawler.py): PlatformDetector, RateLimiter,   *)
(* BlogCrawler.crawl_url, both fetch strategies and crawl_multiple.        *)
(*                                                                         *)
(* Scheduling is asyncio's: one thread, a coroutine runs from one await to *)
(* the next without interruption.  Every action below is one such segment  *)
(* of a coroutine, or an event of the environment (clock, network,         *)
(* browser).  The clock counts half seconds.  Optional values are          *)
(* sequences: <<>> is Python's None, <<v>> is the value v.                 *)
(***************************************************************************)
EXTENDS Integers, Sequences, FiniteSets, TLC

VARIABLES now, last_requests, request_counts, session, phase, urls,
          tasks, semaphore, crawl_results, call, returned

\* The crawler's state, and one call of a function of the module on its own:
\* call is the function and its arguments, returned is how the call ended.
crawler == <<now, last_requests, request_counts, session, phase, urls,
             tasks, semaphore, crawl_results>>
direct == <<call, returned>>
vars == <<crawler, direct>>

None == <<>>
Some(v) == <<v>>

(* ---------------------------- bounds ----------------------------------- *)
\* Longest url list handed to crawl_multiple.
MaxUrls == 3
\* Last instant of the clock (half seconds).
MaxTime == 1
\* Most a or img elements of a document handed to _extract_links or
\* _extract_images on its own.
MaxRefs == 3
\* Most wait_if_needed calls made one after the other in one process.
MaxCalls == 2
\* Last instant of the clock while these calls are made (half seconds).
MaxClock == 4
\* settings.CONCURRENT_REQUESTS, scaled down from its default of 16 so that
\* a list of MaxUrls urls exceeds it.
CONCURRENT_REQUESTS == 2

(* ------------------------ configuration -------------------------------- *)
\* settings.REQUEST_DELAY = 1.0 s, in half seconds.
REQUEST_DELAY == 2
\* crawling_settings.RATE_LIMITS[p]["delay"], in half seconds.
RATE_LIMITS ==
    [naver |-> 4, tistory |-> 2, wordpress |-> 1, medium |-> 3, brunch |-> 4]

\* PlatformDetector.PLATFORM_PATTERNS, in dictionary order.
PLATFORM_PATTERNS ==
    << [platform |-> "naver",
        patterns |-> <<"blog\\.naver\\.com", "m\\.blog\\.naver\\.com">>],
       [platform |-> "tistory",
        patterns |-> <<"\\.tistory\\.com", "tistory\\.com">>],
       [platform |-> "wordpress",
        patterns |-> <<"wordpress\\.com", "wp\\.com", "/wp-content/",
                       "/wp-includes/">>],
       [platform |-> "medium",
        patterns |-> <<"medium\\.com", "\\.medium\\.com">>],
       [platform |-> "brunch",
        patterns |-> <<"brunch\\.co\\.kr">>] >>

(* ------------------------------ urls ----------------------------------- *)
UrlPost  == "https://example.org/post"
UrlWp    == "https://example.org/wp-content/a"
UrlNaver == "https://blog.naver.com/x"
UrlMedium == "https://medium.com/@a/b"
UrlBad   == "http://[example.org/post"

\* The urls a caller passes.
UrlPool == {UrlPost, UrlWp, UrlNaver, UrlMedium, UrlBad}

\* s[i], as a string of one character.
Char(s, i) == SubSeq(s, i, i)

\* str.lower() of one character.
LowerChar(c) ==
    CASE c = "A" -> "a" [] c = "B" -> "b" [] c = "C" -> "c" [] c = "D" -> "d"
      [] c = "E" -> "e" [] c = "F" -> "f" [] c = "G" -> "g" [] c = "H" -> "h"
      [] c = "I" -> "i" [] c = "J" -> "j" [] c = "K" -> "k" [] c = "L" -> "l"
      [] c = "M" -> "m" [] c = "N" -> "n" [] c = "O" -> "o" [] c = "P" -> "p"
      [] c = "Q" -> "q" [] c = "R" -> "r" [] c = "S" -> "s" [] c = "T" -> "t"
      [] c = "U" -> "u" [] c = "V" -> "v" [] c = "W" -> "w" [] c = "X" -> "x"
      [] c = "Y" -> "y" [] c = "Z" -> "z"
      [] OTHER -> c

RECURSIVE lower(_)
lower(s) ==
    IF s = "" THEN ""
    ELSE LowerChar(Char(s, 1)) \o lower(SubSeq(s, 2, Len(s)))

\* The text a signature pattern stands for: its only metacharacter is the
\* backslash that escapes a dot.
RECURSIVE Literal(_)
Literal(pattern) ==
    IF pattern = "" THEN ""
    ELSE IF Char(pattern, 1) = "\\"
         THEN Char(pattern, 2) \o Literal(SubSeq(pattern, 3, Len(pattern)))
         ELSE Char(pattern, 1) \o Literal(SubSeq(pattern, 2, Len(pattern)))

\* re.search(pattern, string): the pattern's text occurs somewhere in string.
re_search(pattern, string) ==
    LET lit == Literal(pattern)
    IN  \E i \in 1..(Len(string) - Len(lit) + 1) :
            SubSeq(string, i, i + Len(lit) - 1) = lit

\* urlparse(url).netloc; an unbalanced bracket raises ValueError.
UrlparseRaises(url) == url = UrlBad
netloc(url) ==
    CASE url = UrlNaver -> "blog.naver.com"
      [] url = UrlMedium -> "medium.com"
      [] OTHER          -> "example.org"

Domains == {netloc(u) : u \in UrlPool}

\* Urls handed to detect_platform on its own: hosts and paths that carry
\* the signatures of no platform, of one, or of several.
Hosts == {"example.org", "blognaver.com", "blog.naver.com",
          "m.blog.naver.com", "Blog.Naver.COM", "a.tistory.com",
          "tistory.com", "a.wordpress.com", "wp.com", "medium.com",
          "a.medium.com", "notmedium.community", "brunch.co.kr"}
Paths == {"", "/post", "/wp-content/a", "/WP-Includes/b",
          "/?ref=medium.com", "/?u=blog.naver.com", "/brunch.co.kr"}
SignatureUrls == {"https://" \o h \o p : h \in Hosts, p \in Paths}

(* ----------------------- PlatformDetector ------------------------------ *)
\* A detector that tries only the first pattern of every platform.
RECURSIVE DetectFirstPattern(_, _)
DetectFirstPattern(k, url) ==
    IF k > Len(PLATFORM_PATTERNS) THEN <<>>
    ELSE IF re_search(PLATFORM_PATTERNS[k].patterns[1], url)
         THEN <<PLATFORM_PATTERNS[k].platform>>
         ELSE DetectFirstPattern(k + 1, url)

\* A detector that walks the platforms from the last to the first.
RECURSIVE DetectFromLast(_, _)
DetectFromLast(k, url) ==
    LET n == Len(PLATFORM_PATTERNS) + 1 - k
    IN  IF k > Len(PLATFORM_PATTERNS) THEN <<>>
        ELSE IF \E j \in 1..Len(PLATFORM_PATTERNS[n].patterns) :
                    re_search(PLATFORM_PATTERNS[n].patterns[j], url)
             THEN <<PLATFORM_PATTERNS[n].platform>>
             ELSE DetectFromLast(k + 1, url)

\* for platform, patterns in PLATFORM_PATTERNS.items(): first hit wins.
RECURSIVE DetectFrom(_, _)
DetectFrom(k, url) ==
    IF k > Len(PLATFORM_PATTERNS) THEN None
    ELSE IF \E j \in 1..Len(PLATFORM_PATTERNS[k].patterns) :
                re_search(PLATFORM_PATTERNS[k].patterns[j], url)
         THEN Some(PLATFORM_PATTERNS[k].platform)
         ELSE DetectFrom(k + 1, url)

\* detect_platform, lines 66-73, evaluated once for every url of the model.
PlatformOf == [u \in UrlPool \cup SignatureUrls |-> DetectFrom(1, lower(u))]

detect_platform(url) == PlatformOf[url]

(* --------------------------- RateLimiter ------------------------------- *)
\* A limiter with one delay for every platform.
RequiredDelayDefault(platform) == REQUEST_DELAY

\* lines 94-97: the platform's delay, else the default delay.
RequiredDelay(platform) ==
    IF platform # None /\ platform[1] \in DOMAIN RATE_LIMITS
    THEN RATE_LIMITS[platform[1]]
    ELSE REQUEST_DELAY

\* wait_if_needed that also waits when the domain has no entry.
MustWaitUnseen(last, t, delay) ==
    \/ last = None
    \/ t - last[1] < delay

\* lines 100-102: a recorded request less than delay ago.
MustWait(last, t, delay) ==
    /\ last # None
    /\ t - last[1] < delay

\* wait_time taken as the elapsed time instead of the remaining time.
WakeTimeElapsed(last, t, delay) == t + (t - last[1])

\* lines 103-105: asyncio.sleep(wait_time) called at t ends no earlier than this.
WakeTime(last, t, delay) == t + (delay - (t - last[1]))

\* A write that keeps no entry but the one it writes.
MarkAlone(lr, domain, t) ==
    [d \in DOMAIN lr |-> IF d = domain THEN Some(t) ELSE None]

\* A write that refreshes an entry and never creates one.
MarkOnlySeen(lr, domain, t) ==
    IF lr[domain] = <<>> THEN lr ELSE [lr EXCEPT ![domain] = <<t>>]

\* line 107: self.last_requests[domain] = time.time()
Mark(lr, domain, t) == [lr EXCEPT ![domain] = Some(t)]

\* How a call ends: with a value, or with an exception.
Returns(v) == [ok |-> TRUE, value |-> v]
Raises(e) == [ok |-> FALSE, value |-> e]

(* --------------------------- faults, documents ------------------------- *)
\* What a network or browser operation can raise: (type, str(e)).
ConnectError == [type |-> "ClientConnectorError",
                 msg |-> "Cannot connect to host"]
TimeoutError == [type |-> "TimeoutError", msg |-> ""]
FetchFaults == {ConnectError, TimeoutError}
\* What playwright raises.
NavigationError == [type |-> "Error", msg |-> "net::ERR_CONNECTION_REFUSED"]
BrowserFaults == {NavigationError}

\* str(e)
str(e) == e.msg

\* Response statuses of the server.
Statuses == {200, 404}

\* Documents a server returns: one with every field, one nested too deep
\* for the parser (BeautifulSoup raises RecursionError).
Docs == {"full", "deep"}
ParseRaises(doc) == doc = "deep"
RecursionError == [type |-> "RecursionError",
                   msg |-> "maximum recursion depth exceeded"]

(* --------------------------- _parse_date ------------------------------- *)
IsDigit(c) == c \in {"0", "1", "2", "3", "4", "5", "6", "7", "8", "9"}
DigitValue(c) ==
    CASE c = "0" -> 0 [] c = "1" -> 1 [] c = "2" -> 2 [] c = "3" -> 3
      [] c = "4" -> 4 [] c = "5" -> 5 [] c = "6" -> 6 [] c = "7" -> 7
      [] c = "8" -> 8 [] c = "9" -> 9

\* int(s[p:p+n]) when these n characters are digits.
RECURSIVE Number(_, _, _)
Number(s, p, n) ==
    IF n = 0 THEN 0
    ELSE 10 * Number(s, p, n - 1) + DigitValue(Char(s, p + n - 1))

AllDigits(s, p, n) ==
    /\ p + n - 1 <= Len(s)
    /\ \A q \in p..(p + n - 1) : IsDigit(Char(s, q))

\* The two-digit alternatives of a directive's regular expression in
\* _strptime: %d 01-31, %m 01-12, %H 00-23, %M 00-59, %S 00-61.
TwoDigits(dir, s, p) ==
    /\ AllDigits(s, p, 2)
    /\ LET v == Number(s, p, 2)
       IN  CASE dir = "d" -> v >= 1 /\ v <= 31
             [] dir = "m" -> v >= 1 /\ v <= 12
             [] dir = "H" -> v <= 23
             [] dir = "M" -> v <= 59
             [] dir = "S" -> v <= 61

\* The one-digit alternative: [1-9] for %d and %m, \d for %H, %M and %S.
OneDigit(dir, s, p) ==
    /\ AllDigits(s, p, 1)
    /\ dir \in {"d", "m"} => Char(s, p) # "0"

\* The last alternative of %d: a space and one of [1-9].
SpaceDigit(dir, s, p) ==
    /\ dir = "d"
    /\ p + 1 <= Len(s)
    /\ Char(s, p) = " "
    /\ AllDigits(s, p + 1, 1)
    /\ Char(s, p + 1) # "0"

\* The number of blanks of s from p on.
RECURSIVE Blanks(_, _)
Blanks(s, p) ==
    IF p <= Len(s) /\ Char(s, p) = " " THEN 1 + Blanks(s, p + 1) ELSE 0

\* What strptime has before any directive is read.
NoFields == [Y |-> 1900, m |-> 1, d |-> 1, H |-> 0, M |-> 0, S |-> 0,
             end |-> 0]

\* format_regex.match(data_string) of _strptime from fmt[k] and s[p] on: the
\* first match in the order of the alternatives, longer numbers first, with
\* backtracking; None when there is none.  A blank of the format is \s+,
\* the match ignores case.
RECURSIVE RegexMatch(_, _, _, _, _)
RegexMatch(fmt, k, s, p, got) ==
    IF k > Len(fmt) THEN Some([got EXCEPT !.end = p])
    ELSE IF Char(fmt, k) = "%"
    THEN LET dir == Char(fmt, k + 1)
             Take(n, v) ==
                 RegexMatch(fmt, k + 2, s, p + n, [got EXCEPT ![dir] = v])
             two == IF TwoDigits(dir, s, p)
                    THEN Take(2, Number(s, p, 2)) ELSE None
             one == IF OneDigit(dir, s, p)
                    THEN Take(1, Number(s, p, 1)) ELSE None
             blank == IF SpaceDigit(dir, s, p)
                      THEN Take(2, Number(s, p + 1, 1)) ELSE None
         IN  IF dir = "Y"
             THEN IF AllDigits(s, p, 4)
                  THEN Take(4, Number(s, p, 4)) ELSE None
             ELSE IF two # None THEN two
             ELSE IF one # None THEN one
             ELSE blank
    ELSE IF Char(fmt, k) = " "
    THEN IF Blanks(s, p) >= 1
         THEN RegexMatch(fmt, k + 1, s, p + Blanks(s, p), got)
         ELSE None
    ELSE IF p <= Len(s) /\ LowerChar(Char(s, p)) = LowerChar(Char(fmt, k))
         THEN RegexMatch(fmt, k + 1, s, p + 1, got)
         ELSE None

\* calendar: the days of month m of year y.
DaysIn(y, m) ==
    IF m = 2
    THEN IF (y % 4 = 0 /\ y % 100 # 0) \/ y % 400 = 0 THEN 29 ELSE 28
    ELSE IF m \in {4, 6, 9, 11} THEN 30 ELSE 31

\* datetime(year, month, day, hour, minute, second) accepts the fields.
ValidDate(f) ==
    /\ f.Y >= 1
    /\ f.d <= DaysIn(f.Y, f.m)
    /\ f.S <= 59

datetime(f) == [year |-> f.Y, month |-> f.m, day |-> f.d,
                hour |-> f.H, minute |-> f.M, second |-> f.S]

DateValueError == [type |-> "ValueError",
                   msg |-> "time data does not match format"]

\* datetime.strptime(s, fmt): the whole of s has to match, and the fields
\* have to be a date.
strptime(s, fmt) ==
    LET found == RegexMatch(fmt, 1, s, 1, NoFields)
    IN  IF found = None THEN Raises(DateValueError)
        ELSE IF found[1].end # Len(s) + 1 THEN Raises(DateValueError)
        ELSE IF ~ValidDate(found[1]) THEN Raises(DateValueError)
        ELSE Returns(datetime(found[1]))

\* _parse_date, lines 235-242.
formats == << "%Y-%m-%d", "%Y-%m-%dT%H:%M:%S", "%Y-%m-%dT%H:%M:%SZ",
              "%Y-%m-%d %H:%M:%S", "%Y.%m.%d", "%Y/%m/%d" >>

\* s[:n]
Prefix(s, n) == SubSeq(s, 1, IF n < Len(s) THEN n ELSE Len(s))

\* line 246: the slice handed to strptime for format fmt.
DateSlice(date_str, fmt) == Prefix(date_str, Len(fmt))

\* lines 244-248: the first format from the k-th on that parses.
RECURSIVE ParseFrom(_, _)
ParseFrom(k, date_str) ==
    IF k > Len(formats) THEN None
    ELSE LET r == strptime(DateSlice(date_str, formats[k]), formats[k])
         IN  IF r.ok THEN Some(r.value) ELSE ParseFrom(k + 1, date_str)

\* _parse_date(date_str), lines 229-251; date_str is None or a string.
_parse_date(date_str) ==
    IF date_str = None \/ date_str = Some("") THEN None
    ELSE ParseFrom(1, date_str[1])

(* ------------------------ links and images ----------------------------- *)
\* s.startswith(prefix)
startswith(s, prefix) ==
    Len(s) >= Len(prefix) /\ SubSeq(s, 1, Len(prefix)) = prefix

\* s[p:]
Suffix(s, p) == SubSeq(s, p, Len(s))

\* The first place from p on where s has one of the characters cs, or
\* Len(s) + 1.
RECURSIVE FindAny(_, _, _)
FindAny(s, cs, p) ==
    IF p > Len(s) \/ Char(s, p) \in cs THEN p ELSE FindAny(s, cs, p + 1)

\* c occurs in s.
HasChar(s, c) == FindAny(s, {c}, 1) <= Len(s)

UrlValueError == [type |-> "ValueError", msg |-> "Invalid IPv6 URL"]

\* urllib.parse.urlsplit(url) for a url with or without "scheme://": the
\* scheme, the netloc (after "//", up to the first of / ? #) and the rest.
\* A netloc with one bracket and not the other raises ValueError.
\* The place of the ":" that ends the scheme, if url has a scheme.
SchemeEnd(url) == FindAny(url, {":", "/", "?", "#"}, 1)

HasScheme(url) ==
    /\ SchemeEnd(url) > 1
    /\ SchemeEnd(url) <= Len(url)
    /\ Char(url, SchemeEnd(url)) = ":"

SplitScheme(url) ==
    IF HasScheme(url) THEN Prefix(url, SchemeEnd(url) - 1) ELSE ""

\* url without its scheme and the ":".
SplitAfter(url) ==
    IF HasScheme(url) THEN Suffix(url, SchemeEnd(url) + 1) ELSE url

SplitNetloc(after) ==
    IF startswith(after, "//")
    THEN SubSeq(after, 3, FindAny(after, {"/", "?", "#"}, 3) - 1) ELSE ""

SplitRest(after) ==
    IF startswith(after, "//")
    THEN Suffix(after, FindAny(after, {"/", "?", "#"}, 3)) ELSE after

SplitResult(scheme, host, rest) ==
    IF HasChar(host, "[") # HasChar(host, "]")
    THEN Raises(UrlValueError)
    ELSE Returns([scheme |-> lower(scheme), netloc |-> host, rest |-> rest])

urlsplit(url) ==
    SplitResult(SplitScheme(url), SplitNetloc(SplitAfter(url)),
                SplitRest(SplitAfter(url)))

\* urllib.parse.urljoin(base, url) for an http or https base and a url
\* that starts with "/" and has no "." or ".." segment: the base's scheme,
\* the url's netloc if it has one and else the base's, then the url's path,
\* query and fragment.
\* b and u are the base and the url, split.
Joined(base, b, u) ==
    IF ~b.ok THEN b
    ELSE IF ~u.ok THEN u
    ELSE IF u.value.netloc # ""
    THEN Returns(b.value.scheme \o "://" \o u.value.netloc \o u.value.rest)
    ELSE IF u.value.rest = "" THEN Returns(base)
    ELSE Returns(b.value.scheme \o "://" \o b.value.netloc \o u.value.rest)

urljoin(base, url) == Joined(base, urlsplit(base), urlsplit(url))

\* lines 256-261 and 268-273: the list collected from the href (src)
\* attributes refs of the a (img) elements that have one, in document order;
\* None is an element without the attribute.
\* The outcome r with its value as the one element of a list.
Value_of(r) == IF r.ok THEN Returns(Some(r.value)) ELSE r

\* lines 258-261 (271-274): what one attribute value adds to the list,
\* None when it adds nothing.
Ref_url(ref, base_url) ==
    IF ref = None THEN Returns(None)
    ELSE IF startswith(ref[1], "http://") \/ startswith(ref[1], "https://")
    THEN Returns(ref)
    ELSE IF startswith(ref[1], "/")
    THEN Value_of(urljoin(base_url, ref[1]))
    ELSE Returns(None)

\* The list that starts with what head adds and goes on as tail; the first
\* of the two that raised, if one did.
Prepend(head, tail) ==
    IF ~head.ok THEN head
    ELSE IF ~tail.ok THEN tail
    ELSE Returns(head.value \o tail.value)

RECURSIVE Collect_refs(_, _, _)
Collect_refs(refs, k, base_url) ==
    IF k > Len(refs) THEN Returns(<<>>)
    ELSE Prepend(Ref_url(refs[k], base_url),
                 Collect_refs(refs, k + 1, base_url))

\* A list returned as collected, duplicates included.
list_all(seq) == seq

\* list(set(seq)): every value of seq once.  The order is that of the set's
\* hash table; here it is the order of first occurrence, and the calls
\* made on their own take every order.
AddNew(front, last) ==
    IF \E i \in 1..Len(front) : front[i] = last
    THEN front ELSE Append(front, last)

RECURSIVE list_set(_)
list_set(seq) ==
    IF seq = <<>> THEN <<>>
    ELSE AddNew(list_set(SubSeq(seq, 1, Len(seq) - 1)), seq[Len(seq)])

\* lines 263 and 275 on what the loop collected.
Listed(collected) ==
    IF collected.ok THEN Returns(list_set(collected.value)) ELSE collected

\* _extract_links(soup, base_url), lines 253-263.
_extract_links(soup, base_url) ==
    Listed(Collect_refs(soup.a, 1, base_url))

\* _extract_images(soup, base_url), lines 265-275.
_extract_images(soup, base_url) ==
    Listed(Collect_refs(soup.img, 1, base_url))

(* ------------------------- ContentExtractor ---------------------------- *)
\* crawling_settings.PLATFORM_SELECTORS.
PLATFORM_SELECTORS ==
    [naver |->
        [title |-> "h3.se_title, .se-title-text",
         content |-> ".se-main-container, .se-component",
         meta_description |-> "meta[name='description']",
         author |-> ".nick, .blog_nick",
         date |-> ".se-date, .blog_date"],
     tistory |->
        [title |-> "h1.entry-title, .article-header h1",
         content |-> ".entry-content, .article-view",
         meta_description |-> "meta[name='description']",
         author |-> ".author, .writer",
         date |-> ".article-date, .published"],
     wordpress |->
        [title |-> "h1.entry-title, .wp-block-post-title",
         content |-> ".entry-content, .wp-block-post-content",
         meta_description |-> "meta[name='description']",
         author |-> ".author, .wp-block-post-author",
         date |-> ".entry-date, .wp-block-post-date"],
     medium |->
        [title |-> "h1, article h1",
         content |-> "article section, .postArticle-content",
         meta_description |-> "meta[name='description']",
         author |-> ".postMetaInline a, .author",
         date |-> ".date, time"],
     brunch |->
        [title |-> ".wrap_title h1",
         content |-> ".wrap_body",
         meta_description |-> "meta[name='description']",
         author |-> ".by_author",
         date |-> ".wrap_date"]]

\* _get_selectors, lines 117-129.
_get_selectors(platform) ==
    IF platform # None /\ platform # Some("")
          /\ platform[1] \in DOMAIN PLATFORM_SELECTORS
    THEN PLATFORM_SELECTORS[platform[1]]
    ELSE [title |-> "h1, title",
          content |-> "article, .content, .post, .entry",
          meta_description |-> "meta[name='description']",
          author |-> ".author, .writer, .by",
          date |-> ".date, .published, time"]

\* A parsed document is what its queries answer.  select[css] is
\* soup.select_one(css), title is soup.find("title"), meta[name] is
\* soup.find("meta", ...) for that name or property: each None or an
\* element.  An element is its get_text(strip=True), its datetime attribute
\* and its content attribute.  a and img are the href and src attributes of
\* the a and img elements in document order, None where there is none.
Element(text, datetime_attr, content_attr) ==
    [text |-> text, datetime |-> datetime_attr, content |-> content_attr]

select_one(soup, css) ==
    IF css \in DOMAIN soup.select THEN soup.select[css] ELSE None
find_meta(soup, name) ==
    IF name \in DOMAIN soup.meta THEN soup.meta[name] ELSE None

\* _extract_title, lines 155-167.
_extract_title(soup, selectors) ==
    IF select_one(soup, selectors.title) # None
    THEN Some(select_one(soup, selectors.title)[1].text)
    ELSE IF soup.title # None THEN Some(soup.title[1].text)
    ELSE None

\* _extract_content, lines 169-179.
_extract_content(soup, selectors) ==
    IF select_one(soup, selectors.content) # None
    THEN Some(select_one(soup, selectors.content)[1].text)
    ELSE None

\* _extract_meta_description, lines 181-192.
_extract_meta_description(soup) ==
    IF find_meta(soup, "description") # None
    THEN find_meta(soup, "description")[1].content
    ELSE IF find_meta(soup, "og:description") # None
    THEN find_meta(soup, "og:description")[1].content
    ELSE None

\* _extract_meta_keywords, lines 194-200.
_extract_meta_keywords(soup) ==
    IF find_meta(soup, "keywords") # None
    THEN find_meta(soup, "keywords")[1].content
    ELSE None

\* _extract_author, lines 202-213.
_extract_author(soup, selectors) ==
    IF select_one(soup, selectors.author) # None
    THEN Some(select_one(soup, selectors.author)[1].text)
    ELSE IF find_meta(soup, "author") # None
    THEN find_meta(soup, "author")[1].content
    ELSE None

\* _extract_date, lines 215-226.
_extract_date(soup, selectors) ==
    IF select_one(soup, selectors.date) # None
    THEN LET date_elem == select_one(soup, selectors.date)[1]
         IN  IF date_elem.datetime # None /\ date_elem.datetime # Some("")
             THEN _parse_date(date_elem.datetime)
             ELSE _parse_date(Some(date_elem.text))
    ELSE IF find_meta(soup, "date") # None
    THEN _parse_date(find_meta(soup, "date")[1].content)
    ELSE None

\* The elements of refs at the places that are not in removed, from place k
\* on.
RECURSIVE Remaining(_, _, _)
Remaining(refs, removed, k) ==
    IF k > Len(refs) THEN <<>>
    ELSE (IF k \in removed THEN <<>> ELSE <<refs[k]>>)
            \o Remaining(refs, removed, k + 1)

\* lines 173-175: _extract_content takes the script, style, nav and footer
\* subtrees of the content element out of soup itself (decompose); the
\* document that _extract_links and _extract_images read afterwards.
decompose(soup, selectors) ==
    IF select_one(soup, selectors.content) # None
    THEN [soup EXCEPT !.a = Remaining(soup.a, soup.a_nav, 1),
                      !.img = Remaining(soup.img, soup.img_nav, 1)]
    ELSE soup

\* ContentExtractor(platform).extract_content(soup, url), lines 131-153: the
\* eight fields, or the exception of the first field that raises.
Fields(soup, selectors, links, images) ==
    IF ~links.ok THEN links
    ELSE IF ~images.ok THEN images
    ELSE Returns(
           [title |-> _extract_title(soup, selectors),
            content |-> _extract_content(soup, selectors),
            meta_description |-> _extract_meta_description(soup),
            meta_keywords |-> _extract_meta_keywords(soup),
            author |-> _extract_author(soup, selectors),
            published_date |-> _extract_date(soup, selectors),
            links |-> Some(links.value),
            images |-> Some(images.value)])

extract_content(soup, url, platform) ==
    Fields(soup, _get_selectors(platform),
           _extract_links(decompose(soup, _get_selectors(platform)), url),
           _extract_images(decompose(soup, _get_selectors(platform)), url))

\* BeautifulSoup(html, "html.parser") of the document a server returns: a
\* page whose elements match the selectors of every platform, with one link
\* and one image.
BeautifulSoup(html) ==
    LET elem == Element("t", Some("2024-1-5"), None)
    IN  [select |-> [css \in {"h1, title", "h1, article h1",
                              "h3.se_title, .se-title-text",
                              "h1.entry-title, .wp-block-post-title",
                              ".date, .published, time", ".date, time",
                              ".se-date, .blog_date",
                              ".entry-date, .wp-block-post-date"} |->
                       Some(elem)],
         title |-> Some(elem),
         meta |-> [name \in {"description", "keywords"} |->
                       Some(Element("", None, Some("d")))],
         a |-> <<Some("/l")>>,
         img |-> <<Some("https://example.org/i.png")>>,
         a_nav |-> {}, img_nav |-> {}]

\* extract_content on the documents and urls of the crawler, evaluated once.
Extracted ==
    [html \in Docs, url \in UrlPool |->
        extract_content(BeautifulSoup(html), url, detect_platform(url))]

(* ----------------------------- CrawlResult ----------------------------- *)
\* models.CrawlResult: every optional field defaults to None.
CrawlResult(url, success) ==
    [url |-> url, success |-> success, status_code |-> None,
     title |-> None, content |-> None, meta_description |-> None,
     meta_keywords |-> None, author |-> None, published_date |-> None,
     platform |-> None, links |-> None, images |-> None,
     error_message |-> None, response_time |-> None]

ContentFields == {"title", "content", "meta_description", "meta_keywords",
                  "author", "published_date", "links", "images"}

\* crawl_url lines 337-344.  response_time is kept as "elapsed", not its value.
SuccessResult(url, status, platform, content_data) ==
    [f \in DOMAIN CrawlResult(url, TRUE) |->
        IF f \in ContentFields THEN content_data[f]
        ELSE IF f = "status_code" THEN Some(status)
        ELSE IF f = "platform" THEN platform
        ELSE IF f = "response_time" THEN Some("elapsed")
        ELSE CrawlResult(url, TRUE)[f]]

\* A failure result that keeps the platform classified at line 317.
FailureResultWithPlatform(url, e) ==
    [CrawlResult(url, FALSE) EXCEPT !.error_message = Some(str(e)),
                                    !.response_time = Some("elapsed"),
                                    !.platform = detect_platform(url)]

\* A failure result built without its message.
FailureResultNoMessage(url, e) ==
    [CrawlResult(url, FALSE) EXCEPT !.response_time = Some("elapsed")]

\* crawl_url lines 346-355.
FailureResult(url, e) ==
    [CrawlResult(url, FALSE) EXCEPT !.error_message = Some(str(e)),
                                    !.response_time = Some("elapsed")]

\* crawl_multiple lines 426-432.
FallbackResult(url, e) ==
    [CrawlResult(url, FALSE) EXCEPT !.error_message = Some(str(e))]

(* ------------------------------- tasks --------------------------------- *)
\* One crawl_url execution.  pc is the await the coroutine is suspended at.
\* seen, enter, slept, ret record its wait_if_needed call: the entry of
\* last_requests found at line 100, the clock read at line 91 (kept while the
\* call sleeps), whether line 105 ran, the clock written at line 107.
NewTask(url, use_browser) ==
    [pc |-> "pending", url |-> url, use_browser |-> use_browser,
     enter |-> None, seen |-> None, slept |-> FALSE, ret |-> None,
     status |-> None,  pending_exc |-> None,
     browser |-> "none", result |-> None, raised |-> None]

Suspended == {"sleep", "http_get", "br_launch", "br_goto", "br_settle",
              "br_close"}

SessionError == [type |-> "RuntimeError",
                 msg |-> "Session not initialized. Use async context manager."]
ValueError == [type |-> "ValueError", msg |-> "Invalid IPv6 URL"]
LoadError == [type |-> "Exception", msg |-> "Failed to load page"]
HttpError(status) ==
    [type |-> "Exception",
     msg |-> IF status = 404 THEN "HTTP 404: Not Found" ELSE "HTTP error"]

\* crawl_url returns r; the record of its limiter call is dropped with it.
Return(t, r) ==
    [t EXCEPT !.pc = "done", !.result = Some(r),
              !.enter = None, !.seen = None, !.slept = FALSE, !.ret = None,
              !.status = None,  !.pending_exc = None]

\* crawl_url without its except clause: the exception leaves the coroutine.
CaughtReraise(t, e) ==
    [t EXCEPT !.pc = "done", !.raised = Some(e),
              !.enter = None, !.seen = None, !.slept = FALSE, !.ret = None,
              !.status = None, !.pending_exc = None]

\* crawl_url lines 346-355: except Exception as e.
Caught(t, e) == Return(t, FailureResult(t.url, e))

\* crawl_url lines 330-344: parse, extract, assemble.
Extract(t, status, content_data) ==
    IF ~content_data.ok
    THEN Caught(t, content_data.value)
    ELSE Return(t, SuccessResult(t.url, status, detect_platform(t.url),
                                 content_data.value))

ParseAndExtract(t, html, status) ==
    IF ParseRaises(html)
    THEN Caught(t, RecursionError)
    ELSE Extract(t, status, Extracted[html, t.url])

\* _needs_browser, lines 397-401.
needs_browser(platform) ==
    platform # None /\ platform[1] \in {"naver", "medium"}

\* A choice that looks at the caller's flag alone.
UsesBrowserFlagOnly(use_browser, platform) == use_browser

\* crawl_url line 325.
UsesBrowser(use_browser, platform) == use_browser \/ needs_browser(platform)

\* A static fetch that returns the body of every response.
HttpStatusNeverFails(status) == FALSE

\* _crawl_with_http line 366.
HttpStatusFails(status) == status >= 400

\* A static fetch that does not look at the session before its request.
BeginFetchNoSessionCheck(t) ==
    IF UsesBrowser(t.use_browser, detect_platform(t.url))
    THEN [t EXCEPT !.pc = "br_launch"]
    ELSE [t EXCEPT !.pc = "http_get"]

\* crawl_url lines 325-328, to the first await of the chosen strategy.
BeginFetch(t) ==
    IF UsesBrowser(t.use_browser, detect_platform(t.url))
    THEN [t EXCEPT !.pc = "br_launch"]
    ELSE IF session = "none"
         THEN Caught(t, SessionError)
         ELSE [t EXCEPT !.pc = "http_get"]

\* An acquire that takes no permit.
AcquireNoCount(value) == value

\* A release that gives no permit back.
ReleaseNone(value) == value

\* asyncio.Semaphore acquire and release.
Acquire(value) == value - 1
Release(value) == value + 1

\* The permit of task i is given back when its coroutine ends.
SemaphoreAfter(value, t_new) ==
    IF phase = "multi" /\ t_new.pc = "done" THEN Release(value) ELSE value

InFlight == {i \in 1..Len(tasks) : tasks[i].pc \in Suspended}

(* -------------------------------- Init --------------------------------- *)
\* BlogCrawler(): an empty limiter, no session.
Init ==
    /\ now = 0
    /\ last_requests = [d \in Domains |-> None]
    /\ request_counts = [d \in Domains |-> None]
    /\ session = "none"
    /\ phase = "idle"
    /\ urls = <<>>
    /\ tasks = <<>>
    /\ semaphore = 0
    /\ crawl_results = <<>>
    /\ call = None
    /\ returned = None

(* ------------------------------- actions ------------------------------- *)
\* time.time() advances.  The clock is read by wait_if_needed alone (lines
\* 91 and 107), so its advance shows only while a task has yet to leave the
\* limiter.
Tick ==
    /\ now < MaxTime
    /\ \E i \in 1..Len(tasks) : tasks[i].pc \in {"pending", "sleep"}
    /\ now' = now + 1
    /\ UNCHANGED <<last_requests, request_counts, session, phase, urls,
                   tasks, semaphore, crawl_results>>
    /\ UNCHANGED direct

\* __aenter__, lines 285-295.
AEnter ==
    /\ phase = "idle"
    /\ session = "none"
    /\ session' = "open"
    /\ UNCHANGED <<now, last_requests, request_counts, phase, urls,
                   tasks, semaphore, crawl_results>>
    /\ UNCHANGED direct

\* The body of the async with block raises outside crawl_url and
\* crawl_multiple (crawl_multiple(None) raises TypeError at line 419).
BodyRaise ==
    /\ phase = "idle"
    /\ session = "open"
    /\ phase' = "body_raised"
    /\ UNCHANGED <<now, last_requests, request_counts, session, urls,
                   tasks, semaphore, crawl_results>>
    /\ UNCHANGED direct

\* The ways the body of the scope ends: by returning, by raising.
BodyReturned == {"idle", "single_returned", "multi_returned"}
BodyRaised == {"single_raised", "body_raised"}

\* The phase after __aexit__.
Exited(ph) == IF ph \in BodyRaised THEN "exited_raised" ELSE "exited"

\* An __aexit__ that closes the session only when exc_type is None.
AExitOnReturnOnly ==
    /\ phase \in BodyReturned \cup BodyRaised
    /\ session = "open"
    /\ session' = IF phase \in BodyRaised THEN session ELSE "closed"
    /\ phase' = Exited(phase)
    /\ UNCHANGED <<now, last_requests, request_counts, urls,
                   tasks, semaphore, crawl_results>>
    /\ UNCHANGED direct

\* __aexit__, lines 297-300: the scope ends, after its body returned or
\* raised.
AExit ==
    /\ phase \in BodyReturned \cup BodyRaised
    /\ session = "open"
    /\ session' = "closed"
    /\ phase' = Exited(phase)
    /\ UNCHANGED <<now, last_requests, request_counts, urls,
                   tasks, semaphore, crawl_results>>
    /\ UNCHANGED direct

\* The urls of the lists handed to crawl_multiple.
ListPool == {UrlWp, UrlNaver}
UrlLists == UNION {[1..n -> ListPool] : n \in 0..MaxUrls}

\* crawl_multiple(us), lines 413-420: the semaphore, one coroutine per url.
CallCrawlMultiple(us) ==
    /\ phase = "idle"
    /\ session # "closed"
    /\ phase' = "multi"
    /\ urls' = us
    /\ tasks' = [i \in 1..Len(us) |-> NewTask(us[i], FALSE)]
    /\ semaphore' = CONCURRENT_REQUESTS
    /\ UNCHANGED <<now, last_requests, request_counts, session, crawl_results>>
    /\ UNCHANGED direct

\* crawl_url(u, ub) called directly.
CallCrawlUrl(u, ub) ==
    /\ phase = "idle"
    /\ session # "closed"
    /\ phase' = "single"
    /\ urls' = <<u>>
    /\ tasks' = <<NewTask(u, ub)>>
    /\ UNCHANGED <<now, last_requests, request_counts, session, semaphore,
                   crawl_results>>
    /\ UNCHANGED direct

\* A limiter that writes the stamp before it sleeps as well.
StartTaskMarkBeforeSleep(i) ==
    /\ phase \in {"single", "multi"}
    /\ i \in 1..Len(tasks)
    /\ tasks[i].pc = "pending"
    /\ \A j \in 1..(i - 1) : tasks[j].pc # "pending"
    /\ phase = "multi" => semaphore > 0
    /\ LET t == tasks[i]
           platform == detect_platform(t.url)
           domain == netloc(t.url)
           delay == RequiredDelay(platform)
           last == last_requests[domain]
           entered == [t EXCEPT !.seen = last]
           held == IF phase = "multi" THEN Acquire(semaphore) ELSE semaphore
       IN  IF UrlparseRaises(t.url)
           THEN /\ tasks' = [tasks EXCEPT ![i] = Caught(t, ValueError)]
                /\ semaphore' = SemaphoreAfter(held, Caught(t, ValueError))
                /\ UNCHANGED last_requests
           ELSE IF MustWait(last, now, delay)
           THEN /\ tasks' = [tasks EXCEPT ![i] =
                              [entered EXCEPT !.pc = "sleep",
                                              !.enter = Some(now)]]
                /\ semaphore' = held
                /\ last_requests' = Mark(last_requests, domain, now)
           ELSE LET t2 == BeginFetch([entered EXCEPT !.ret = Some(now)])
                IN  /\ tasks' = [tasks EXCEPT ![i] = t2]
                    /\ semaphore' = SemaphoreAfter(held, t2)
                    /\ last_requests' = Mark(last_requests, domain, now)
    /\ UNCHANGED <<now, request_counts, session, phase, urls, crawl_results>>
    /\ UNCHANGED direct

\* The first segment of task i: the permit (line 416), then crawl_url lines
\* 313-322 and wait_if_needed lines 91-105 to its first await.  Tasks get
\* their first turn, and their permits, in list order.
StartTask(i) ==
    /\ phase \in {"single", "multi"}
    /\ i \in 1..Len(tasks)
    /\ tasks[i].pc = "pending"
    /\ \A j \in 1..(i - 1) : tasks[j].pc # "pending"
    /\ phase = "multi" => semaphore > 0
    /\ LET t == tasks[i]
           platform == detect_platform(t.url)
           domain == netloc(t.url)
           delay == RequiredDelay(platform)
           last == last_requests[domain]
           entered == [t EXCEPT !.seen = last]
           held == IF phase = "multi" THEN Acquire(semaphore) ELSE semaphore
       IN  IF UrlparseRaises(t.url)
           THEN /\ tasks' = [tasks EXCEPT ![i] = Caught(t, ValueError)]
                /\ semaphore' = SemaphoreAfter(held, Caught(t, ValueError))
                /\ UNCHANGED last_requests
           ELSE IF MustWait(last, now, delay)
           THEN /\ tasks' = [tasks EXCEPT ![i] =
                              [entered EXCEPT !.pc = "sleep",
                                              !.enter = Some(now)]]
                /\ semaphore' = held
                /\ UNCHANGED last_requests
           ELSE LET t2 == BeginFetch([entered EXCEPT !.ret = Some(now)])
                IN  /\ tasks' = [tasks EXCEPT ![i] = t2]
                    /\ semaphore' = SemaphoreAfter(held, t2)
                    /\ last_requests' = Mark(last_requests, domain, now)
    /\ UNCHANGED <<now, request_counts, session, phase, urls, crawl_results>>
    /\ UNCHANGED direct

\* A limiter that looks at the entry again after its sleep and sleeps again
\* when another call has marked the domain meanwhile.
WakeTaskRecheck(i) ==
    /\ i \in 1..Len(tasks)
    /\ tasks[i].pc = "sleep"
    /\ LET t == tasks[i]
           delay == RequiredDelay(detect_platform(t.url))
           last == last_requests[netloc(t.url)]
       IN  /\ now >= WakeTime(t.seen, t.enter[1], delay)
           /\ IF MustWait(last, now, delay)
              THEN /\ tasks' = [tasks EXCEPT ![i] =
                                  [t EXCEPT !.seen = last, !.enter = Some(now)]]
                   /\ UNCHANGED <<semaphore, last_requests>>
              ELSE /\ LET t2 == BeginFetch([t EXCEPT !.ret = Some(now),
                                                     !.slept = TRUE,
                                                     !.enter = None])
                      IN  /\ tasks' = [tasks EXCEPT ![i] = t2]
                          /\ semaphore' = SemaphoreAfter(semaphore, t2)
                   /\ last_requests' = Mark(last_requests, netloc(t.url), now)
    /\ UNCHANGED <<now, request_counts, session, phase, urls, crawl_results>>
    /\ UNCHANGED direct

\* A limiter that records, after its sleep, the time it read at line 91.
WakeTaskStampsEntry(i) ==
    /\ i \in 1..Len(tasks)
    /\ tasks[i].pc = "sleep"
    /\ LET t == tasks[i]
           delay == RequiredDelay(detect_platform(t.url))
       IN  /\ now >= WakeTime(t.seen, t.enter[1], delay)
           /\ LET t2 == BeginFetch([t EXCEPT !.ret = Some(now), !.slept = TRUE,
                                              !.enter = None])
              IN  /\ tasks' = [tasks EXCEPT ![i] = t2]
                  /\ semaphore' = SemaphoreAfter(semaphore, t2)
           /\ last_requests' = Mark(last_requests, netloc(t.url), t.enter[1])
    /\ UNCHANGED <<now, request_counts, session, phase, urls, crawl_results>>
    /\ UNCHANGED direct

\* asyncio.sleep returns: line 107, then the fetch begins.
WakeTask(i) ==
    /\ i \in 1..Len(tasks)
    /\ tasks[i].pc = "sleep"
    /\ LET t == tasks[i]
           delay == RequiredDelay(detect_platform(t.url))
       IN  /\ now >= WakeTime(t.seen, t.enter[1], delay)
           /\ LET t2 == BeginFetch([t EXCEPT !.ret = Some(now), !.slept = TRUE,
                                              !.enter = None])
              IN  /\ tasks' = [tasks EXCEPT ![i] = t2]
                  /\ semaphore' = SemaphoreAfter(semaphore, t2)
           /\ last_requests' = Mark(last_requests, netloc(t.url), now)
    /\ UNCHANGED <<now, request_counts, session, phase, urls, crawl_results>>
    /\ UNCHANGED direct

\* A step that has to wait while a call sleeps in the limiter, as it would
\* if the limiter slept with time.sleep and kept the thread.
AdvanceUnlessAsleep(i, t2) ==
    /\ \A k \in 1..Len(tasks) : tasks[k].pc # "sleep"
    /\ tasks' = [tasks EXCEPT ![i] = t2]
    /\ semaphore' = SemaphoreAfter(semaphore, t2)
    /\ UNCHANGED <<now, last_requests, request_counts, session, phase, urls,
                   crawl_results>>
    /\ UNCHANGED direct

\* Task i moves to t2 without touching the limiter.
Advance(i, t2) ==
    /\ tasks' = [tasks EXCEPT ![i] = t2]
    /\ semaphore' = SemaphoreAfter(semaphore, t2)
    /\ UNCHANGED <<now, last_requests, request_counts, session, phase, urls,
                   crawl_results>>
    /\ UNCHANGED direct

\* session.get(url) answers and response.text() returns, lines 362-369,
\* then crawl_url lines 330-344.
HttpResponse(i, status, html) ==
    /\ i \in 1..Len(tasks)
    /\ tasks[i].pc = "http_get"
    /\ LET t == tasks[i]
       IN  Advance(i, IF HttpStatusFails(status)
                      THEN Caught(t, HttpError(status))
                      ELSE ParseAndExtract(t, html, status))

\* session.get or response.text() raises.
HttpRaise(i, e) ==
    /\ i \in 1..Len(tasks)
    /\ tasks[i].pc = "http_get"
    /\ Advance(i, Caught(tasks[i], e))

\* async_playwright() and chromium.launch, lines 373-374.
BrowserLaunch(i) ==
    /\ i \in 1..Len(tasks)
    /\ tasks[i].pc = "br_launch"
    /\ Advance(i, [tasks[i] EXCEPT !.pc = "br_goto", !.browser = "open"])

\* The launch raises: no browser, nothing to close.
BrowserLaunchRaise(i, e) ==
    /\ i \in 1..Len(tasks)
    /\ tasks[i].pc = "br_launch"
    /\ Advance(i, Caught(tasks[i], e))

\* new_page, set_extra_http_headers, goto, lines 376-384.  response is None
\* or the navigation's response.
BrowserGoto(i, response) ==
    /\ i \in 1..Len(tasks)
    /\ tasks[i].pc = "br_goto"
    /\ Advance(i, IF response = None
                  THEN [tasks[i] EXCEPT !.pc = "br_close",
                                        !.pending_exc = Some(LoadError)]
                  ELSE [tasks[i] EXCEPT !.pc = "br_settle",
                                        !.status = response])

\* page.wait_for_timeout(2000) and page.content() return, lines 387-392;
\* the finally clause runs next.
BrowserSettle(i) ==
    /\ i \in 1..Len(tasks)
    /\ tasks[i].pc = "br_settle"
    /\ Advance(i, [tasks[i] EXCEPT !.pc = "br_close"])

\* A rendered fetch without its finally clause: the exception leaves
\* _crawl_with_browser at once.
BrowserRaiseNoFinally(i, e) ==
    /\ i \in 1..Len(tasks)
    /\ tasks[i].pc \in {"br_goto", "br_settle"}
    /\ Advance(i, Caught(tasks[i], e))

\* A page operation raises inside the try; the finally clause runs next.
BrowserRaise(i, e) ==
    /\ i \in 1..Len(tasks)
    /\ tasks[i].pc \in {"br_goto", "br_settle"}
    /\ Advance(i, [tasks[i] EXCEPT !.pc = "br_close", !.pending_exc = Some(e)])

\* browser.close() returns, line 395; the pending return or exception
\* reaches crawl_url.  html is the document page.content() captured.
BrowserClose(i, html) ==
    /\ i \in 1..Len(tasks)
    /\ tasks[i].pc = "br_close"
    /\ LET t == [tasks[i] EXCEPT !.browser = "closed"]
       IN  Advance(i, IF t.pending_exc # None
                      THEN Caught(t, t.pending_exc[1])
                      ELSE ParseAndExtract(t, html, t.status[1]))

\* The results in the order opposite to the tasks'.
CollectReversed(us, ts) ==
    [i \in 1..Len(ts) |->
        IF ts[Len(ts) + 1 - i].raised # None
        THEN FallbackResult(us[i], ts[Len(ts) + 1 - i].raised[1])
        ELSE ts[Len(ts) + 1 - i].result[1]]

\* A gather that gives up on the first failed task: every slot reports it.
CollectAbortOnFailure(us, ts) ==
    LET failed == {i \in 1..Len(ts) :
                      ts[i].raised # None \/ ~ts[i].result[1].success}
    IN  [i \in 1..Len(ts) |->
            IF failed # {}
            THEN [CrawlResult(us[i], FALSE) EXCEPT
                     !.error_message = Some("aborted")]
            ELSE ts[i].result[1]]

\* crawl_multiple lines 423-436: one CrawlResult per task, in list order.
Collect(us, ts) ==
    [i \in 1..Len(ts) |->
        IF ts[i].raised # None
        THEN FallbackResult(us[i], ts[i].raised[1])
        ELSE ts[i].result[1]]

\* gather is complete, line 420; crawl_multiple returns.
Gather ==
    /\ phase = "multi"
    /\ \A i \in 1..Len(tasks) : tasks[i].pc = "done"
    /\ crawl_results' = Collect(urls, tasks)
    /\ phase' = "multi_returned"
    /\ UNCHANGED <<now, last_requests, request_counts, session, urls, tasks,
                   semaphore>>
    /\ UNCHANGED direct

\* The direct crawl_url call returns its CrawlResult; an exception that left
\* the coroutine reaches the caller.
ReturnCrawlUrl ==
    /\ phase = "single"
    /\ tasks[1].pc = "done"
    /\ IF tasks[1].raised # None
       THEN /\ phase' = "single_raised"
            /\ UNCHANGED crawl_results
       ELSE /\ phase' = "single_returned"
            /\ crawl_results' = <<tasks[1].result[1]>>
    /\ UNCHANGED <<now, last_requests, request_counts, session, urls, tasks,
                   semaphore>>
    /\ UNCHANGED direct

Next ==
    \/ Tick
    \/ AEnter
    \/ BodyRaise
    \/ AExit
    \/ \E us \in UrlLists : CallCrawlMultiple(us)
    \/ \E u \in UrlPool, ub \in BOOLEAN : CallCrawlUrl(u, ub)
    \/ \E i \in 1..MaxUrls : StartTask(i)
    \/ \E i \in 1..MaxUrls : WakeTask(i)
    \/ \E i \in 1..MaxUrls, s \in Statuses, d \in Docs : HttpResponse(i, s, d)
    \/ \E i \in 1..MaxUrls, e \in FetchFaults : HttpRaise(i, e)
    \/ \E i \in 1..MaxUrls : BrowserLaunch(i)
    \/ \E i \in 1..MaxUrls, e \in BrowserFaults : BrowserLaunchRaise(i, e)
    \/ \E i \in 1..MaxUrls, r \in {None} \cup {Some(s) : s \in Statuses} :
          BrowserGoto(i, r)
    \/ \E i \in 1..MaxUrls : BrowserSettle(i)
    \/ \E i \in 1..MaxUrls, e \in BrowserFaults : BrowserRaise(i, e)
    \/ \E i \in 1..MaxUrls, d \in Docs : BrowserClose(i, d)
    \/ Gather
    \/ ReturnCrawlUrl

Spec == Init /\ [][Next]_vars

(* ------------------------------ fairness ------------------------------- *)
\* crawl_multiple on its own, every fetch ending in one of two ways: with a
\* document, or with an exception.
NextLive ==
    \/ Tick
    \/ AEnter
    \/ \E us \in UrlLists : CallCrawlMultiple(us)
    \/ \E i \in 1..MaxUrls : StartTask(i)
    \/ \E i \in 1..MaxUrls : WakeTask(i)
    \/ \E i \in 1..MaxUrls : HttpResponse(i, 200, "full")
    \/ \E i \in 1..MaxUrls : HttpRaise(i, ConnectError)
    \/ \E i \in 1..MaxUrls : BrowserLaunch(i)
    \/ \E i \in 1..MaxUrls : BrowserLaunchRaise(i, NavigationError)
    \/ \E i \in 1..MaxUrls : BrowserGoto(i, Some(200))
    \/ \E i \in 1..MaxUrls : BrowserSettle(i)
    \/ \E i \in 1..MaxUrls : BrowserRaise(i, NavigationError)
    \/ \E i \in 1..MaxUrls : BrowserClose(i, "full")
    \/ Gather

\* The event loop runs a coroutine that is ready, the clock advances, and a
\* network or browser operation ends (aiohttp's total timeout, playwright's
\* navigation timeout): while a step is possible, a step is taken.  No step
\* undoes another, so this is enough for every execution to take every step
\* it can.
Fairness == WF_vars(NextLive)

SpecLive == Init /\ [][NextLive]_vars /\ Fairness

(* --------------------------- direct calls ------------------------------ *)
\* Date strings of documents: a date in several spellings, alone or
\* followed by a time, and no string at all.
DateParts == {"", "2024-01-15", "2024-1-5", "2024-1-15", "2024-12-1",
              "2024-2-30", "2024-01-05", "0000-1-5", "2024.01.15",
              "2024.1.5", "2024/01/15", "2024/1/5", "15/01/2024"}
TimeParts == {"", "T10:30:00", "T10:30:00Z", " 10:30:00", "T1:2:3",
              "t1:2:3z", " 1:2:3", "x"}
DateStrings == {None} \cup {Some(d \o t) : d \in DateParts, t \in TimeParts}

\* href and src attributes: none, an absolute url, a rooted path,
\* a path with a host, a relative path, a host with an open bracket.
RefPool == {None, Some("https://example.org/l"), Some("/l"),
            Some("//cdn.example.org/x"), Some("l.html"), Some("//[bad")}
RefLists == UNION {[1..n -> RefPool] : n \in 0..MaxRefs}
ShortRefLists == {<<>>} \cup {<<r>> : r \in RefPool}

\* The urls of the documents.
BaseUrls == {UrlPost, UrlNaver}

\* Documents: the head and body of a page, then its links and images.
\* An empty page; a page with the fallback elements only; a page whose
\* elements match the default and the naver selectors; a page whose
\* elements have no text and whose meta elements have no content.
Pages ==
    { [select |-> <<>>, title |-> None, meta |-> <<>>],
      [select |-> <<>>,
       title |-> Some(Element("Title", None, None)),
       meta |-> [name \in {"og:description", "author", "date"} |->
                    Some(Element("", None, Some("2024-1-5")))]],
      [select |-> [css \in {"h1, title", "article, .content, .post, .entry",
                            ".author, .writer, .by",
                            ".date, .published, time",
                            "h3.se_title, .se-title-text",
                            ".se-main-container, .se-component",
                            ".nick, .blog_nick", ".se-date, .blog_date"} |->
                      Some(Element("2024-01-05T1:2:3", Some("2024-01-15"),
                                   None))],
       title |-> Some(Element("Title", None, None)),
       meta |-> [name \in {"description", "keywords"} |->
                    Some(Element("", None, Some("words")))]],
      [select |-> [css \in {".date, .published, time",
                            ".se-date, .blog_date"} |->
                      Some(Element("", Some(""), None))],
       title |-> Some(Element("", None, None)),
       meta |-> [name \in {"description", "og:description", "keywords",
                           "author", "date"} |->
                    Some(Element("", None, None))]] }

\* a and img are the href and src attributes of the a and img elements in
\* document order; a_nav and img_nav are the places in them of the elements
\* that lie in a script, style, nav or footer subtree of the element the
\* content selector matches.
Document(page, a, img, a_nav, img_nav) ==
    [select |-> page.select, title |-> page.title, meta |-> page.meta,
     a |-> a, img |-> img, a_nav |-> a_nav, img_nav |-> img_nav]

\* Where the elements of refs lie: none, or all, in such a subtree.
NavSets(refs) == {{}, 1..Len(refs)}

NoPage == [select |-> <<>>, title |-> None, meta |-> <<>>]

\* The platforms of an extractor: unknown, known, known to the detector
\* of another program.
ExtractorPlatforms == {None, Some("naver"), Some("blogger")}

\* The calls made on their own.
DetectCalls == {[fn |-> "detect_platform", url |-> u] : u \in SignatureUrls}
DateCalls == {[fn |-> "_parse_date", date_str |-> d] : d \in DateStrings}
LinkCalls ==
    {[fn |-> "_extract_links", soup |-> Document(NoPage, refs, <<>>, {}, {}),
      base_url |-> b] : refs \in RefLists, b \in BaseUrls}
ImageCalls ==
    {[fn |-> "_extract_images", soup |-> Document(NoPage, <<>>, refs, {}, {}),
      base_url |-> b] : refs \in RefLists, b \in BaseUrls}
ExtractCalls ==
    UNION {{[fn |-> "extract_content",
             soup |-> Document(page, a, img, a_nav, img_nav),
             url |-> b, platform |-> pf] :
               page \in Pages, b \in BaseUrls, pf \in ExtractorPlatforms,
               a_nav \in NavSets(a), img_nav \in NavSets(img)} :
           a \in ShortRefLists, img \in ShortRefLists}
Calls == DetectCalls \cup DateCalls \cup LinkCalls \cup ImageCalls
            \cup ExtractCalls

\* The orders in which a set of the values of seq can be listed.
Orders(seq) ==
    {[i \in 1..Len(seq) |-> seq[f[i]]] :
        f \in {g \in [1..Len(seq) -> 1..Len(seq)] :
                  \A i, j \in 1..Len(seq) : g[i] = g[j] => i = j}}

\* The ways a call that ended as r can end, the order of its list apart.
AnyOrder(r) ==
    IF r.ok THEN {Returns(l) : l \in Orders(r.value)} ELSE {r}

InitDirect ==
    /\ now = 0
    /\ last_requests = [d \in Domains |-> None]
    /\ request_counts = [d \in Domains |-> None]
    /\ session = "none"
    /\ phase = "idle"
    /\ urls = <<>>
    /\ tasks = <<>>
    /\ semaphore = 0
    /\ crawl_results = <<>>
    /\ call \in {Some(c) : c \in Calls}
    /\ returned = None

\* PlatformDetector.detect_platform(url), lines 56-73.
CallDetectPlatform ==
    /\ returned = None
    /\ call[1].fn = "detect_platform"
    /\ returned' = Some(Returns(detect_platform(call[1].url)))
    /\ UNCHANGED <<call, crawler>>

\* ContentExtractor._parse_date(date_str), lines 229-251.
CallParseDate ==
    /\ returned = None
    /\ call[1].fn = "_parse_date"
    /\ returned' = Some(Returns(_parse_date(call[1].date_str)))
    /\ UNCHANGED <<call, crawler>>

\* ContentExtractor._extract_links(soup, base_url), lines 253-263.
CallExtractLinks ==
    /\ returned = None
    /\ call[1].fn = "_extract_links"
    /\ \E r \in AnyOrder(_extract_links(call[1].soup, call[1].base_url)) :
          returned' = Some(r)
    /\ UNCHANGED <<call, crawler>>

\* ContentExtractor._extract_images(soup, base_url), lines 265-275.
CallExtractImages ==
    /\ returned = None
    /\ call[1].fn = "_extract_images"
    /\ \E r \in AnyOrder(_extract_images(call[1].soup, call[1].base_url)) :
          returned' = Some(r)
    /\ UNCHANGED <<call, crawler>>

\* ContentExtractor(platform).extract_content(soup, url), lines 131-153.
CallExtractContent ==
    /\ returned = None
    /\ call[1].fn = "extract_content"
    /\ returned' = Some(extract_content(call[1].soup, call[1].url,
                                        call[1].platform))
    /\ UNCHANGED <<call, crawler>>

NextDirect ==
    \/ CallDetectPlatform
    \/ CallParseDate
    \/ CallExtractLinks
    \/ CallExtractImages
    \/ CallExtractContent

SpecDirect == InitDirect /\ [][NextDirect]_vars

(* --------------------------- limiter calls ----------------------------- *)
\* wait_if_needed calls made one after the other in one process, on the
\* limiter of the current BlogCrawler.  call is the call that sleeps,
\* returned is the list of the calls that have returned: domain, platform,
\* the clock at line 91, the entry found at line 100, the wait_time handed to
\* asyncio.sleep (0 without a sleep) and the clock at line 107.
LimiterDomains == {"example.org", "blog.naver.com"}
LimiterPlatforms ==
    {None} \cup {Some(p) : p \in {"naver", "tistory", "wordpress", "medium",
                                  "brunch", "blogger"}}

InitLimiter ==
    /\ now = 0
    /\ last_requests = [d \in Domains |-> None]
    /\ request_counts = [d \in Domains |-> None]
    /\ session = "none"
    /\ phase = "idle"
    /\ urls = <<>>
    /\ tasks = <<>>
    /\ semaphore = 0
    /\ crawl_results = <<>>
    /\ call = None
    /\ returned = <<>>

Unused == <<session, phase, urls, tasks, semaphore, crawl_results>>

\* time.time() advances.
ClockTick ==
    /\ now < MaxClock
    /\ call # None \/ Len(returned) < MaxCalls
    /\ now' = now + 1
    /\ UNCHANGED <<last_requests, request_counts, call, returned, Unused>>

\* An entry point (crawl_blog_url line 451, crawl_blog_urls line 466)
\* builds its BlogCrawler, and that its RateLimiter (lines 282, 80-81).
NewCrawler ==
    /\ call = None
    /\ returned # <<>>
    /\ Len(returned) < MaxCalls
    /\ last_requests # [d \in Domains |-> None]
    /\ last_requests' = [d \in Domains |-> None]
    /\ request_counts' = [d \in Domains |-> None]
    /\ UNCHANGED <<now, call, returned, Unused>>

Finished(c, wait_time, t) ==
    [domain |-> c.domain, platform |-> c.platform, enter |-> c.enter,
     seen |-> c.seen, wait_time |-> wait_time, ret |-> t]

\* wait_if_needed(domain, platform), lines 91-107, to its await or its end.
WaitIfNeeded(domain, platform) ==
    /\ call = None
    /\ Len(returned) < MaxCalls
    /\ LET last == last_requests[domain]
           delay == RequiredDelay(platform)
           c == [domain |-> domain, platform |-> platform, enter |-> now,
                 seen |-> last]
       IN  IF MustWait(last, now, delay)
           THEN /\ call' = Some(c)
                /\ UNCHANGED <<last_requests, returned>>
           ELSE /\ last_requests' = Mark(last_requests, domain, now)
                /\ returned' = Append(returned, Finished(c, 0, now))
                /\ UNCHANGED call
    /\ UNCHANGED <<now, request_counts, Unused>>

\* asyncio.sleep(wait_time) returns, then line 107.
WaitIsOver ==
    /\ call # None
    /\ LET c == call[1]
           wake == WakeTime(c.seen, c.enter, RequiredDelay(c.platform))
       IN  /\ now >= wake
           /\ last_requests' = Mark(last_requests, c.domain, now)
           /\ returned' = Append(returned, Finished(c, wake - c.enter, now))
    /\ call' = None
    /\ UNCHANGED <<now, request_counts, Unused>>

NextLimiter ==
    \/ ClockTick
    \/ NewCrawler
    \/ \E d \in LimiterDomains, p \in LimiterPlatforms : WaitIfNeeded(d, p)
    \/ WaitIsOver

SpecLimiter == InitLimiter /\ [][NextLimiter]_vars

(* ------------------------------- claims -------------------------------- *)
\* Every CrawlResult the program has produced so far.
Results ==
    {tasks[i].result[1] : i \in {j \in 1..Len(tasks) : tasks[j].result # None}}
    \cup {crawl_results[i] : i \in 1..Len(crawl_results)}

IsCrawlResult(r) == DOMAIN r = DOMAIN CrawlResult("", FALSE)

SameDomain(i, j) == netloc(tasks[i].url) = netloc(tasks[j].url)
DelayOf(i) == RequiredDelay(detect_platform(tasks[i].url))

\* C1: crawl_multiple returns one result per input url, in input order: the
\* list has the length of urls and its i-th element is the result for urls[i].
C1_InputOrder ==
    phase = "multi_returned" =>
        /\ Len(crawl_results) = Len(urls)
        /\ \A i \in 1..Len(urls) : crawl_results[i].url = urls[i]

\* C1 witness: a returned list of MaxUrls results with a repeated url whose
\* two slots hold different results, and a different url between them.
C1_Witness ==
    /\ phase = "multi_returned"
    /\ Len(urls) = 3
    /\ urls[1] = urls[3]
    /\ urls[1] # urls[2]
    /\ crawl_results[1] # crawl_results[3]

\* C2: while crawl_multiple runs, the crawl_url executions that have started
\* and not finished never outnumber settings.CONCURRENT_REQUESTS.
C2_Ceiling ==
    phase = "multi" => Cardinality(InFlight) <= CONCURRENT_REQUESTS

\* C2 witness: the ceiling is reached while a further url waits for a permit.
C2_Witness ==
    /\ phase = "multi"
    /\ Cardinality(InFlight) = CONCURRENT_REQUESTS
    /\ \E i \in 1..Len(tasks) : tasks[i].pc = "pending"
    /\ \E i \in InFlight : tasks[i].pc = "br_settle"
    /\ \E i \in InFlight : tasks[i].pc = "sleep"

\* C3: a failed url never changes another url's outcome: each slot of the
\* returned list is a CrawlResult whose success flag is that of its own
\* task, a finished task's outcome is never touched again, and the step in
\* which one task fails leaves every other task as it was.
C3_Isolation ==
    /\ [](phase = "multi_returned" =>
            \A i \in 1..Len(urls) :
                /\ IsCrawlResult(crawl_results[i])
                /\ crawl_results[i].success =
                       (tasks[i].raised = None /\ tasks[i].result[1].success))
    /\ [][phase = "multi" /\ phase' = "multi" =>
            \A j \in 1..Len(tasks) :
                /\ tasks[j].pc = "done" => tasks'[j] = tasks[j]
                /\ (tasks[j].pc # "done" /\ tasks'[j].pc = "done"
                       /\ (tasks'[j].raised # None
                              \/ ~tasks'[j].result[1].success))
                   => \A i \in 1..Len(tasks) \ {j} : tasks'[i] = tasks[i]]_vars

\* C3 witness: three urls, the second failed, the first and third succeeded.
C3_Witness ==
    /\ phase = "multi_returned"
    /\ Len(urls) = 3
    /\ crawl_results[1].success
    /\ ~crawl_results[2].success
    /\ crawl_results[3].success

\* C4: crawl_url never raises: a finished execution has returned a
\* CrawlResult, and one whose url cannot be parsed, or whose static fetch
\* found no session, has returned success = FALSE.
C4_NeverRaises ==
    /\ phase # "single_raised"
    /\ \A i \in 1..Len(tasks) :
          tasks[i].pc = "done" =>
              /\ tasks[i].raised = None
              /\ tasks[i].result # None
              /\ IsCrawlResult(tasks[i].result[1])
              /\ UrlparseRaises(tasks[i].url) => ~tasks[i].result[1].success
              /\ (session = "none"
                    /\ ~UsesBrowser(tasks[i].use_browser,
                                    detect_platform(tasks[i].url)))
                 => ~tasks[i].result[1].success

\* C4 witness: crawl_url(u, use_browser = TRUE) returned a failure result
\* after its browser was launched and closed.
C4_Witness ==
    /\ phase = "single_returned"
    /\ tasks[1].use_browser
    /\ tasks[1].browser = "closed"
    /\ ~crawl_results[1].success

\* C5: a success result has a status code and the extractor's output; a
\* failure result has an error message and none of the eight content fields.
C5_ResultShape ==
    \A r \in Results :
        /\ r.success =>
              /\ r.status_code # None
              /\ r.links # None
              /\ r.images # None
        /\ ~r.success =>
              /\ r.error_message # None
              /\ \A f \in ContentFields : r[f] = None

\* C5 witness: crawl_multiple returned a success and a failure.
C5_Witness ==
    /\ phase = "multi_returned"
    /\ \E i, j \in 1..Len(crawl_results) :
          crawl_results[i].success /\ ~crawl_results[j].success

\* C6: every failure result carries a non-empty error message and no
\* content field.
C6_NonEmptyMessage ==
    \A r \in Results :
        ~r.success =>
            /\ r.error_message # None
            /\ r.error_message # Some("")
            /\ \A f \in ContentFields : r[f] = None

\* C7: no success result carries a status code of 400 or more.
C7_NoErrorStatusSuccess ==
    \A r \in Results :
        r.success => r.status_code # None /\ r.status_code[1] < 400

\* C8: a call that found a stamp has returned no earlier than its required
\* delay after that stamp; when it was issued sooner it has slept for the
\* remainder.
C8_MinimumInterval ==
    \A i \in 1..Len(tasks) :
        /\ (tasks[i].ret # None /\ tasks[i].seen # None) =>
              tasks[i].ret[1] >= tasks[i].seen[1] + DelayOf(i)
        /\ tasks[i].pc = "sleep" =>
              /\ tasks[i].enter[1] - tasks[i].seen[1] < DelayOf(i)
              /\ WakeTime(tasks[i].seen, tasks[i].enter[1], DelayOf(i))
                    = tasks[i].seen[1] + DelayOf(i)

\* C8 witness: two urls of one domain; the second call came after the first
\* had returned, slept, and has returned.
C8_Witness ==
    /\ phase = "multi"
    /\ Len(urls) = 2
    /\ SameDomain(1, 2)
    /\ tasks[1].seen = None
    /\ tasks[2].slept
    /\ tasks[2].ret # None
    /\ tasks[2].seen = tasks[1].ret

\* C9: a call for a domain without an entry never sleeps: it has marked the
\* domain and returned at the instant it was issued.
C9_UnseenNeverSuspends ==
    \A i \in 1..Len(tasks) :
        (tasks[i].pc \in Suspended /\ tasks[i].seen = None) =>
            /\ tasks[i].pc # "sleep"
            /\ ~tasks[i].slept
            /\ tasks[i].ret # None
            /\ last_requests[netloc(tasks[i].url)] # None

\* C9 witness: calls for two unseen domains, of different platforms, have
\* both gone through without sleeping.
C9_Witness ==
    \E i, j \in InFlight :
        /\ detect_platform(tasks[i].url) = Some("naver")
        /\ detect_platform(tasks[j].url) = Some("wordpress")
        /\ tasks[i].seen = None /\ tasks[i].ret # None
        /\ tasks[j].seen = None /\ tasks[j].ret # None

\* C10: a call sleeps at most once: when its sleep ends it marks the domain
\* and returns without reading the entry again, so calls that read one stamp
\* are not kept apart.
C10_NoRecheck ==
    [][\A i \in 1..Len(tasks) :
          (tasks[i].pc = "sleep" /\ tasks'[i] # tasks[i]) =>
              /\ tasks'[i].pc # "sleep"
              /\ last_requests'[netloc(tasks[i].url)] = Some(now)]_vars

\* C10 witness: two calls for a domain already marked read the same stamp,
\* both slept, and returned less than the required delay apart.
C10_Witness ==
    \E i, j \in InFlight :
        /\ i # j
        /\ SameDomain(i, j)
        /\ tasks[i].slept /\ tasks[j].slept
        /\ tasks[i].seen = tasks[j].seen
        /\ tasks[j].ret[1] - tasks[i].ret[1] >= 0
        /\ tasks[j].ret[1] - tasks[i].ret[1] < DelayOf(j)

Rendered == {"br_launch", "br_goto", "br_settle", "br_close"}
Static == {"http_get"}

\* What the claim says of task i: the caller's flag, or a naver or medium url.
WantsRendered(i) ==
    \/ tasks[i].use_browser
    \/ detect_platform(tasks[i].url) \in {Some("naver"), Some("medium")}

\* C12: a crawl_url call is inside the rendered fetch exactly when
\* use_browser is set or the platform is naver or medium, inside the static
\* fetch otherwise, and a call never goes from one strategy to the other.
C12_OneStrategy ==
    /\ [](\A i \in 1..Len(tasks) :
             /\ tasks[i].pc \in Rendered => WantsRendered(i)
             /\ tasks[i].pc \in Static => ~WantsRendered(i)
             /\ tasks[i].browser # "none" => WantsRendered(i))
    /\ [][\A i \in 1..Len(tasks) :
             (i \in 1..Len(tasks') /\ tasks'[i].url = tasks[i].url) =>
                /\ tasks[i].pc \in Static =>
                      tasks'[i].pc \in Static \cup {"done"}
                /\ tasks[i].pc \in Rendered =>
                      tasks'[i].pc \in Rendered \cup {"done"}
                /\ (tasks[i].pc \in {"pending", "sleep"}
                       /\ tasks'[i].pc \in Rendered) => WantsRendered(i)
                /\ (tasks[i].pc \in {"pending", "sleep"}
                       /\ tasks'[i].pc \in Static) => ~WantsRendered(i)]_vars

\* C12 witness: in one crawl_multiple a naver url is in the rendered fetch
\* and a wordpress url in the static fetch.
C12_Witness ==
    \E i, j \in InFlight :
        /\ detect_platform(tasks[i].url) = Some("naver")
        /\ ~tasks[i].use_browser
        /\ tasks[i].pc = "br_settle"
        /\ detect_platform(tasks[j].url) = Some("wordpress")
        /\ tasks[j].pc = "http_get"

\* The call whose end is recorded, and its end.
Ended(fn) == returned # None /\ call[1].fn = fn

\* The platforms one of whose signature patterns occurs in the lower-cased
\* url, by their place in PLATFORM_PATTERNS.
Matched(url) ==
    {k \in 1..Len(PLATFORM_PATTERNS) :
        \E j \in 1..Len(PLATFORM_PATTERNS[k].patterns) :
            re_search(PLATFORM_PATTERNS[k].patterns[j], lower(url))}

\* C13 as claimed: detect_platform returns P for every url that matches a
\* pattern of P, returns None for a url that matches none, and never fails.
C13_ReturnsEveryMatch ==
    Ended("detect_platform") =>
        /\ returned[1].ok
        /\ \A k \in Matched(call[1].url) :
              returned[1].value = Some(PLATFORM_PATTERNS[k].platform)
        /\ Matched(call[1].url) = {} => returned[1].value = None

\* C13 amended: detect_platform returns P for every url that matches a
\* pattern of P and no pattern of a platform listed before P, returns None
\* for a url that matches no pattern, and never fails.
C13_ReturnsFirstMatch ==
    Ended("detect_platform") =>
        /\ returned[1].ok
        /\ \A k \in Matched(call[1].url) :
              (\A e \in 1..(k - 1) : e \notin Matched(call[1].url)) =>
                  returned[1].value = Some(PLATFORM_PATTERNS[k].platform)
        /\ Matched(call[1].url) = {} => returned[1].value = None

\* C13 witness: a url that carries the second tistory pattern only has been
\* classified as tistory.
C13_Witness ==
    /\ Ended("detect_platform")
    /\ call[1].url = "https://tistory.com/post"
    /\ Matched(call[1].url) = {2}
    /\ returned[1] = Returns(Some("tistory"))

\* The configuration order of the platforms.
ConfigurationOrder == <<"naver", "tistory", "wordpress", "medium", "brunch">>

\* C14: for a url that matches patterns of more than one platform
\* detect_platform returns the matched platform that comes first in the
\* order naver, tistory, wordpress, medium, brunch; the tag is a function of
\* the url alone.
C14_FirstInOrderWins ==
    (Ended("detect_platform") /\ Cardinality(Matched(call[1].url)) > 1) =>
        \E k \in 1..Len(ConfigurationOrder) :
            /\ returned[1] = Returns(Some(ConfigurationOrder[k]))
            /\ \E m \in Matched(call[1].url) :
                  PLATFORM_PATTERNS[m].platform = ConfigurationOrder[k]
            /\ \A e \in 1..(k - 1) :
                  \A m \in Matched(call[1].url) :
                      PLATFORM_PATTERNS[m].platform # ConfigurationOrder[e]

\* C14 witness: a url with a medium host and a wordpress path has been
\* classified as wordpress.
C14_Witness ==
    /\ Ended("detect_platform")
    /\ call[1].url = "https://a.medium.com/wp-content/a"
    /\ Matched(call[1].url) = {3, 4}
    /\ returned[1] = Returns(Some("wordpress"))

\* C15: the session is created once, by __aenter__, and every end of the
\* scope closes it: after the body returned (crawl_blog_url and
\* crawl_blog_urls included) and after the body raised, and a closed session
\* is never replaced.
C15_SessionScoped ==
    /\ [](phase \in {"exited", "exited_raised"} => session = "closed")
    /\ [][(session' # session =>
              \/ session = "none" /\ session' = "open" /\ phase = "idle"
              \/ session = "open" /\ session' = "closed")
           /\ ((phase' # phase /\ phase' \in {"exited", "exited_raised"}) =>
                  (session = "open" /\ session' = "closed"))]_vars

\* C15 witness: the scope whose body raised has ended and its session is
\* closed.
C15_Witness ==
    /\ phase = "exited_raised"
    /\ session = "closed"

InLimiter(ts) == {i \in 1..Len(ts) : ts[i].pc \in {"pending", "sleep"}}

\* C20: the stamp of a domain is written only in the step in which a call
\* for that domain returns from wait_if_needed, with the clock of that
\* step: after its sleep, if it slept, and with no await before the return.
\* A call that goes to sleep or stays asleep writes nothing.
C20_MarkIsLastStep ==
    [][\A d \in Domains :
          last_requests'[d] # last_requests[d] =>
              /\ last_requests'[d] = Some(now)
              /\ Len(tasks') = Len(tasks)
              /\ \E i \in InLimiter(tasks) :
                    /\ netloc(tasks[i].url) = d
                    /\ i \notin InLimiter(tasks')
                    /\ tasks[i].pc = "sleep" =>
                          now >= WakeTime(tasks[i].seen, tasks[i].enter[1],
                                          DelayOf(i))
                    /\ \A j \in 1..Len(tasks) \ {i} : tasks'[j] = tasks[j]]_vars

\* C20 witness: of two calls that slept on one stamp, one has woken and
\* written the domain's stamp; the other still sleeps and has written
\* nothing.
C20_Witness ==
    \E i, j \in InFlight :
        /\ SameDomain(i, j)
        /\ tasks[i].slept
        /\ tasks[i].ret = last_requests[netloc(tasks[i].url)]
        /\ tasks[j].pc = "sleep"
        /\ tasks[j].seen # last_requests[netloc(tasks[j].url)]
        /\ tasks[j].ret = None

\* The length of a date rendered in each of the formats, in their order.
RenderedLength == <<10, 19, 20, 19, 10, 10>>

\* The first format from the k-th on that parses the prefix of its rendered
\* length.
RECURSIVE ClaimedParseFrom(_, _)
ClaimedParseFrom(k, date_str) ==
    IF k > Len(formats) THEN None
    ELSE LET r == strptime(Prefix(date_str, RenderedLength[k]), formats[k])
         IN  IF r.ok THEN Some(r.value) ELSE ClaimedParseFrom(k + 1, date_str)

\* C17: _parse_date returns the first parse, in the order of the six
\* formats, of the prefix of the input that has the format's rendered
\* length, and None when no format parses; "2024-01-15" gives January 15,
\* 2024, "15/01/2024" gives None, and no input makes it raise.
C17_ParsesRenderedPrefix ==
    Ended("_parse_date") =>
        /\ returned[1].ok
        /\ (call[1].date_str # None /\ call[1].date_str # Some("")) =>
               returned[1].value = ClaimedParseFrom(1, call[1].date_str[1])
        /\ call[1].date_str = Some("2024-01-15") =>
               returned[1].value =
                   Some([year |-> 2024, month |-> 1, day |-> 15,
                         hour |-> 0, minute |-> 0, second |-> 0])
        /\ call[1].date_str = Some("15/01/2024") =>
               returned[1].value = None

\* A url that carries its scheme.
IsAbsolute(u) ==
    /\ urlsplit(u).ok
    /\ urlsplit(u).value.scheme \in {"http", "https"}

\* The attributes of the call's document that the called function reads.
RefsOfCall ==
    IF call[1].fn = "_extract_links" THEN call[1].soup.a ELSE call[1].soup.img

\* C18: a list returned by _extract_links or _extract_images holds no value
\* twice, whatever the number of its occurrences in the document, and every
\* element is an absolute url; an absolute url of the document is in the
\* list exactly once.
C18_NoDuplicatesAbsolute ==
    ((Ended("_extract_links") \/ Ended("_extract_images"))
        /\ returned[1].ok) =>
        LET v == returned[1].value
        IN  /\ \A i, j \in 1..Len(v) : v[i] = v[j] => i = j
            /\ \A i \in 1..Len(v) : IsAbsolute(v[i])
            /\ \A k \in 1..Len(RefsOfCall) :
                  (RefsOfCall[k] # None /\ IsAbsolute(RefsOfCall[k][1])) =>
                      Cardinality({i \in 1..Len(v) :
                                      v[i] = RefsOfCall[k][1]}) = 1

\* C18 witness: a document with the same absolute url in three a elements
\* gave a list with that url alone.
C18_Witness ==
    /\ Ended("_extract_links")
    /\ call[1].soup.a = <<Some("https://example.org/l"),
                          Some("https://example.org/l"),
                          Some("https://example.org/l")>>
    /\ returned[1] = Returns(<<"https://example.org/l">>)

\* C19: extract_content returns, for every document, url and platform, a
\* map with exactly the eight keys, and never raises.
C19_ExtractTotal ==
    Ended("extract_content") =>
        /\ returned[1].ok
        /\ DOMAIN returned[1].value = ContentFields

(* --------------------------- C21 --------------------------------------- *)
\* The delays of the configuration, in half seconds: naver 2.0, tistory 1.0,
\* wordpress 0.5, medium 1.5, brunch 2.0, and 1.0 for every other platform.
ConfiguredDelay(platform) ==
    CASE platform = Some("naver") -> 4
      [] platform = Some("tistory") -> 2
      [] platform = Some("wordpress") -> 1
      [] platform = Some("medium") -> 3
      [] platform = Some("brunch") -> 4
      [] OTHER -> 2

\* The time a call that entered at enter and found the entry seen has to
\* sleep under the delay of its own platform.
ConfiguredWait(platform, enter, seen) ==
    IF seen # None /\ enter - seen[1] < ConfiguredDelay(platform)
    THEN ConfiguredDelay(platform) - (enter - seen[1])
    ELSE 0

\* C21: every wait_if_needed call sleeps for what is left of the configured
\* delay of its own platform (the default delay for an unknown platform or
\* one without an entry) since the stamp it found, whatever the platform of
\* the call that wrote the stamp; it has not returned before that time.
C21_DelayOfCallingPlatform ==
    /\ \A k \in 1..Len(returned) :
          /\ returned[k].wait_time =
                ConfiguredWait(returned[k].platform, returned[k].enter,
                               returned[k].seen)
          /\ returned[k].ret >= returned[k].enter + returned[k].wait_time
    /\ call # None =>
          ConfiguredWait(call[1].platform, call[1].enter, call[1].seen) > 0

\* C21 witness: a call of a platform with a long delay has slept on the
\* stamp written by a call of a platform with a short delay, for longer than
\* the short delay.
C21_Witness ==
    /\ Len(returned) = 2
    /\ returned[1].domain = returned[2].domain
    /\ returned[1].platform = Some("wordpress")
    /\ returned[2].platform = Some("naver")
    /\ returned[2].seen = Some(returned[1].ret)
    /\ returned[2].wait_time > ConfiguredDelay(returned[1].platform)

(* --------------------------- C22 --------------------------------------- *)
\* The awaits of the two fetch strategies.
InFetch == Suspended \ {"sleep"}

\* Execution i is in its fetch and its limiter call has returned: line 107
\* has written the stamp of its domain.
AfterLimiter(ts, lr, i) ==
    /\ ts[i].ret # None
    /\ lr[netloc(ts[i].url)] # None
    /\ lr[netloc(ts[i].url)][1] >= ts[i].ret[1]

\* Execution i ends with the extractor's output: it was in a fetch that
\* then returned a document, the static one with a status below 400, the
\* rendered one through its finally clause with no exception pending.
ExtractsAfterFetch(ts, ts2, i) ==
    /\ AfterLimiter(ts, last_requests, i)
    /\ \/ /\ ts[i].pc = "http_get"
          /\ ts2[i].result[1].status_code[1] < 400
       \/ /\ ts[i].pc = "br_close"
          /\ ts[i].pending_exc = None
          /\ ts[i].status # None

\* C22: in every crawl_url execution the limiter call for the url's domain
\* has returned before a fetch is begun, a fetch is begun only by the step
\* that ends the limiter call, and a result with extracted content is
\* assembled only by the step in which a fetch returns its document.
C22_StageOrder ==
    [][\A i \in 1..Len(tasks) :
         Len(tasks') = Len(tasks) =>
           /\ (tasks'[i].pc \in InFetch) => AfterLimiter(tasks', last_requests', i)
           /\ (tasks[i].pc \notin InFetch /\ tasks'[i].pc \in InFetch) =>
                 /\ tasks[i].pc \in {"pending", "sleep"}
                 /\ tasks[i].ret = None
           /\ (tasks[i].pc # "done" /\ tasks'[i].pc = "done"
                  /\ tasks'[i].result # None
                  /\ tasks'[i].result[1].success) =>
                 ExtractsAfterFetch(tasks, tasks', i)]_vars

\* C22 witness: of two urls of one domain the first has gone through every
\* stage and has its content, the second has slept in the limiter and is in
\* its fetch.
C22_Witness ==
    /\ phase = "multi"
    /\ Len(tasks) >= 2
    /\ tasks[1].pc = "done"
    /\ tasks[1].result[1].success
    /\ tasks[1].result[1].title # None
    /\ tasks[2].pc = "http_get"
    /\ tasks[2].slept
    /\ netloc(tasks[1].url) = netloc(tasks[2].url)

(* --------------------------- C23 --------------------------------------- *)
\* Every permit is either free or held by one execution that has begun and
\* not ended.
PermitsAccounted ==
    phase \in {"multi", "multi_returned"} =>
        /\ semaphore + Cardinality(InFlight) = CONCURRENT_REQUESTS
        /\ semaphore >= 0

\* Every sleep in the limiter ends: an execution sleeps at most once, so
\* time and again none is asleep.
WaitsTerminate ==
    []<>(\A i \in 1..Len(tasks) : tasks[i].pc # "sleep")

\* C23: a permit is held exactly by the executions between their acquire and
\* their end, whichever way they end; and when every fetch and every limiter
\* sleep ends, no execution waits for a permit for ever, crawl_multiple does
\* not run for ever (it returns: the only step that leaves the phase "multi"
\* is its return), and all permits are free when it has returned.
C23_PermitsReleased ==
    /\ []PermitsAccounted
    /\ [](phase = "multi_returned" => semaphore = CONCURRENT_REQUESTS)
    /\ WaitsTerminate =>
          /\ []<>(phase = "multi" =>
                     \A i \in 1..Len(tasks) : tasks[i].pc # "pending")
          /\ []<>(phase # "multi")

\* C23 witness: crawl_multiple has returned for more urls than there are
\* permits, one of them failed and one succeeded, and every permit is free.
C23_Witness ==
    /\ phase = "multi_returned"
    /\ Len(tasks) > CONCURRENT_REQUESTS
    /\ \E i \in 1..Len(tasks) : crawl_results[i].success
    /\ \E i \in 1..Len(tasks) : ~crawl_results[i].success
    /\ semaphore = CONCURRENT_REQUESTS

(* --------------------------- C24 --------------------------------------- *)
\* A step of execution j inside its fetch, to the end of crawl_url.
FetchStep(j) ==
    \/ \E st \in Statuses, d \in Docs : HttpResponse(j, st, d)
    \/ \E e \in FetchFaults : HttpRaise(j, e)
    \/ BrowserLaunch(j)
    \/ \E r \in {Some(st) : st \in Statuses} : BrowserGoto(j, r)
    \/ BrowserSettle(j)
    \/ \E d \in Docs : BrowserClose(j, d)

\* Execution j has yet to begin, is next in line, and a permit is free.
NextInLine(j) ==
    /\ tasks[j].pc = "pending"
    /\ \A k \in 1..(j - 1) : tasks[k].pc # "pending"
    /\ semaphore > 0

\* C24: while an execution is suspended (in the limiter's sleep, in a
\* network or browser operation, in the settle wait), every other execution
\* that is in its fetch can take its next step, and one that is next in line
\* for a free permit, for another domain, can begin, and is not put to sleep
\* when its own domain has no stamp; the suspended execution stays as it is.
C24_OthersProceed ==
    \A i, j \in 1..Len(tasks) :
        (phase = "multi" /\ i # j /\ tasks[i].pc \in Suspended) =>
            /\ tasks[j].pc \in InFetch =>
                  ENABLED (FetchStep(j) /\ tasks'[i] = tasks[i])
            /\ (NextInLine(j) /\ netloc(tasks[j].url) # netloc(tasks[i].url)) =>
                  ENABLED (StartTask(j) /\ tasks'[i] = tasks[i]
                             /\ (last_requests[netloc(tasks[j].url)] = None
                                   => tasks'[j].pc # "sleep"))

\* C24 witness: the second of two urls of one domain sleeps in the limiter;
\* meanwhile a url of another domain, which began after it, has run its
\* pipeline to the end and has its content.
C24_Witness ==
    /\ phase = "multi"
    /\ Len(tasks) = 3
    /\ tasks[2].pc = "sleep"
    /\ tasks[3].pc = "done"
    /\ tasks[3].result[1].success
    /\ netloc(tasks[3].url) # netloc(tasks[2].url)

(* --------------------------- C25 --------------------------------------- *)
\* What the attribute value ref of a document at base_url stands for in the
\* list: itself, its resolution, or nothing (None).
Stands_for(ref, base_url) ==
    IF ref = None THEN None
    ELSE IF startswith(ref[1], "http://") \/ startswith(ref[1], "https://")
    THEN ref
    ELSE IF startswith(ref[1], "/") /\ urljoin(base_url, ref[1]).ok
    THEN Some(urljoin(base_url, ref[1]).value)
    ELSE None

\* list holds what the values refs stand for, and nothing else.
Accounts_for(list, refs, base_url) ==
    /\ \A k \in 1..Len(refs) :
          Stands_for(refs[k], base_url) # None =>
              \E m \in 1..Len(list) :
                  list[m] = Stands_for(refs[k], base_url)[1]
    /\ \A m \in 1..Len(list) :
          \E k \in 1..Len(refs) :
              Stands_for(refs[k], base_url) = Some(list[m])

\* C25 as claimed: the links and images that extract_content returns
\* account for every a and img element of the document it was given,
\* wherever the element lies.
C25_EveryAnchorAccounted ==
    (call # None /\ call[1].fn = "extract_content" /\ returned # None
        /\ returned[1].ok) =>
        /\ Accounts_for(returned[1].value.links[1], call[1].soup.a,
                        call[1].url)
        /\ Accounts_for(returned[1].value.images[1], call[1].soup.img,
                        call[1].url)

(* --------------------------- C26 --------------------------------------- *)
\* The calls of the process that returned before position k and asked for
\* the domain d.
EarlierRequests(k, d) == {j \in 1..(k - 1) : returned[j].domain = d}

\* The entry a call at position k has to find if the last-request state
\* lives as long as the process: the return time of the latest earlier
\* request to its domain.
ProcessWideEntry(k, d) ==
    IF EarlierRequests(k, d) = {}
    THEN None
    ELSE Some(returned[CHOOSE j \in EarlierRequests(k, d) :
                          \A i \in EarlierRequests(k, d) : i <= j].ret)

\* C26: the last-request state lasts as long as the process: every
\* wait_if_needed call, whichever crawler (orchestrator, entry point call)
\* makes it, finds the timestamp of the latest earlier request of the
\* process to its domain.
C26_ProcessWideState ==
    /\ \A k \in 1..Len(returned) :
          returned[k].seen = ProcessWideEntry(k, returned[k].domain)
    /\ call # None =>
          call[1].seen = ProcessWideEntry(Len(returned) + 1, call[1].domain)

(* --------------------------- C27 --------------------------------------- *)
\* Execution i leaves wait_if_needed in this step: it was before the call or
\* asleep in it, and it is past line 107.
LeavesLimiter(i) ==
    /\ i \in 1..Len(tasks)
    /\ tasks[i].pc \in {"pending", "sleep"}
    /\ tasks'[i].pc \notin {"pending", "sleep"}
    /\ tasks'[i].ret # None \/ tasks'[i].pc = "done"

\* The domains whose last-request entry this step changes.
Rewritten == {d \in Domains : last_requests'[d] # last_requests[d]}

\* C27: a step of the crawler changes the last-request entry of at most one
\* domain, and then it is the domain of a wait_if_needed call that returns
\* in this step; no step removes an entry; no step changes request_counts.
C27_LimiterFrame ==
    [][/\ Rewritten # {} =>
            \E i \in 1..Len(tasks) :
                /\ LeavesLimiter(i)
                /\ Rewritten = {netloc(tasks[i].url)}
       /\ \A d \in Domains : last_requests[d] # None => last_requests'[d] # None
       /\ request_counts' = request_counts
       /\ request_counts = [d \in Domains |-> None]]_vars

\* C27 witness: two domains have an entry, and the call that wrote the
\* later one left the other as it was.
C27_Witness ==
    \E i, j \in 1..Len(tasks) :
        /\ netloc(tasks[i].url) # netloc(tasks[j].url)
        /\ tasks[i].ret # None /\ tasks[j].ret # None
        /\ tasks[i].ret[1] < tasks[j].ret[1]
        /\ last_requests[netloc(tasks[i].url)] = tasks[i].ret
        /\ last_requests[netloc(tasks[j].url)] = tasks[j].ret

(* --------------------------- C28 --------------------------------------- *)
\* Execution i returns from wait_if_needed in this step.
ReturnsFromLimiter(i) ==
    /\ tasks[i].pc \in {"pending", "sleep"}
    /\ tasks'[i].pc \notin {"pending", "sleep"}
    /\ ~UrlparseRaises(tasks[i].url)

\* C28: the clock never goes back, and then no step lowers the recorded
\* timestamp of a domain, and a step in which a wait_if_needed call returns
\* leaves the time of that return as the timestamp of the call's domain.
C28_StampsMonotone ==
    [][now' >= now =>
         /\ \A d \in Domains :
                last_requests[d] # None =>
                    /\ last_requests'[d] # None
                    /\ last_requests'[d][1] >= last_requests[d][1]
         /\ \A i \in 1..Len(tasks) :
                (Len(tasks') = Len(tasks) /\ ReturnsFromLimiter(i)) =>
                    last_requests'[netloc(tasks[i].url)] = Some(now')]_vars

\* C28 witness: a call that found a timestamp has slept and returned at a
\* later time, which is now the timestamp of its domain.
C28_Witness ==
    \E i \in 1..Len(tasks) :
        /\ tasks[i].slept
        /\ tasks[i].seen # None /\ tasks[i].ret # None
        /\ tasks[i].ret[1] > tasks[i].seen[1]
        /\ last_requests[netloc(tasks[i].url)] = tasks[i].ret

(* --------------------------- C29 --------------------------------------- *)
\* What can reach gather as an exception of a task.
TaskFaults ==
    FetchFaults \cup BrowserFaults
        \cup {SessionError, ValueError, LoadError, RecursionError}

\* Every CrawlResult at hand: those the crawl_url executions returned, those
\* the operation handed to its caller, and those the fallback of
\* crawl_multiple builds for a url of the call.
ResultsAtHand ==
    {tasks[i].result[1] : i \in {j \in 1..Len(tasks) : tasks[j].result # None}}
        \cup {crawl_results[k] : k \in 1..Len(crawl_results)}
        \cup {FallbackResult(urls[i], e) : i \in 1..Len(urls), e \in TaskFaults}

\* C29: a CrawlResult with success false has neither status_code nor
\* platform, whatever response was obtained and whatever the classification
\* said: the two fields are present on results with success true only.
C29_FailureHasNoStatusNoPlatform ==
    \A r \in ResultsAtHand :
        ~r.success => r.status_code = None /\ r.platform = None

\* C29 witness: the caller holds the failure result of a url of a known
\* platform whose server answered 404.
C29_Witness ==
    \E k \in 1..Len(crawl_results) :
        /\ ~crawl_results[k].success
        /\ crawl_results[k].error_message = Some(str(HttpError(404)))
        /\ detect_platform(crawl_results[k].url) # None
        /\ crawl_results[k].status_code = None
        /\ crawl_results[k].platform = None

(* --------------------------- C30 --------------------------------------- *)
\* Execution i takes the static strategy (line 325 is false for it).
StaticStrategy(i) ==
    ~UsesBrowser(tasks[i].use_browser, detect_platform(tasks[i].url))

\* C30: on a crawler whose scope was never entered no execution is ever
\* waiting for an HTTP response; an execution of the static strategy whose
\* limiter call has returned has ended with the failure result that reports
\* the uninitialised session, and its domain has a timestamp; an execution
\* of the rendered strategy never ends with that report.
C30_NoSessionNoRequest ==
    session = "none" =>
        \A i \in 1..Len(tasks) :
            /\ tasks[i].pc # "http_get"
            /\ (StaticStrategy(i) /\ ~UrlparseRaises(tasks[i].url)
                    /\ tasks[i].pc \notin {"pending", "sleep"}) =>
                  /\ tasks[i].pc = "done"
                  /\ tasks[i].result = Some(FailureResult(tasks[i].url,
                                                           SessionError))
                  /\ last_requests[netloc(tasks[i].url)] # None
            /\ (~StaticStrategy(i) /\ tasks[i].result # None) =>
                  tasks[i].result[1].error_message # Some(str(SessionError))

\* C30 witness: crawl_multiple on a crawler never entered has returned the
\* session failure for a static url, whose domain has a timestamp, and a
\* success for a rendered url.
C30_Witness ==
    /\ session = "none"
    /\ phase = "multi_returned"
    /\ \E j, k \in 1..Len(crawl_results) :
          /\ StaticStrategy(j)
          /\ crawl_results[j] = FailureResult(urls[j], SessionError)
          /\ last_requests[netloc(urls[j])] # None
          /\ ~StaticStrategy(k)
          /\ crawl_results[k].success
====
